---- MODULE Spec2Model ----
(***************************************************************************)
(* A model of playwright_prism_retailer_point.py: the Explorer             *)
(* (build_complete_filter_chains) driving the dependent dropdowns of the   *)
(* page, the two collectors (get_first_and_last_page_data and              *)
(* get_all_pages_data) reading the paginated table, and the verifier       *)
(* (verify_filters).                                                       *)
(*                                                                         *)
(* Texts (option labels, table cells, filter values) are sequences of      *)
(* one-character strings, so that strip(), lower() and the substring test  *)
(* `in` are computed character by character as Python computes them.       *)
(***************************************************************************)
EXTENDS Integers, Sequences, FiniteSets, TLC

VARIABLES
    uiTree,           \* the page: which options each dropdown offers in each context
    uiSel,            \* the page: the labels currently selected, region first
    FILTER_LIMITS,    \* the module-level configuration
    ex_pc,            \* build_complete_filter_chains: "start", "loop" or "done"
    loops,            \* its active for-loops, outermost first: [opts, i]
    complete_chains,  \* its result list
    explored,         \* history: the prefixes a loop body was run for
    driverLog,        \* history: the driver calls since the last clear_all_filters
    faults,           \* history: how many driver calls raised so far
    data,             \* verify_filters: the records given
    filters,          \* verify_filters: the chain given
    vf_pc,            \* verify_filters: "call" or "returned"
    verification_result,  \* verify_filters: the report returned
    view,             \* the page: the result pages and the pagination controls
    fl_pc,            \* get_first_and_last_page_data: "call" or "returned"
    fl_cur,           \* the result page shown to it
    fl_data,          \* its all_data
    fl_log,           \* history: its page reads, [content, added]
    ap_pc,            \* get_all_pages_data: "call", "next", "scan" or "returned"
    ap_cur,           \* the result page shown to it
    all_data,         \* its all_data
    seen_data,        \* its seen_data
    visited_pages,    \* its visited_pages
    ap_log,           \* history: its page reads, [content, added]
    run_pc,           \* run_comprehensive_test: "build", "test", "summary" or "ended"
    results,          \* its results list
    summary,          \* the summary it printed: the figures of lines 612-618
    run_error,        \* its except branch was taken
    runLog            \* history: per chain tested, the driver calls and what followed

exVars == <<uiTree, uiSel, FILTER_LIMITS, ex_pc, loops, complete_chains,
            explored, driverLog, faults>>

vfVars == <<data, filters, vf_pc, verification_result>>

flVars == <<fl_pc, fl_cur, fl_data, fl_log>>

apVars == <<ap_pc, ap_cur, all_data, seen_data, visited_pages, ap_log>>

runVars == <<run_pc, results, summary, run_error, runLog>>

vars == <<exVars, vfVars, view, flVars, apVars, runVars>>

----------------------------------------------------------------------------
(* Texts *)

\* A FILTER_LIMITS value is None or an integer k, written <<>> and <<k>>.
None == <<>>

Limit(k) == <<k>>

Whitespace == {" "}

\* str.lower() on one character
LowerChar(c) ==
    CASE c = "A" -> "a"
      [] c = "B" -> "b"
      [] c = "D" -> "d"
      [] c = "N" -> "n"
      [] c = "C" -> "c"
      [] OTHER -> c

\* str.lower()
Lower(s) == [i \in 1..Len(s) |-> LowerChar(s[i])]

RECURSIVE LStrip(_)
LStrip(s) ==
    IF s # <<>> /\ Head(s) \in Whitespace THEN LStrip(Tail(s)) ELSE s

RECURSIVE RStrip(_)
RStrip(s) ==
    IF s # <<>> /\ s[Len(s)] \in Whitespace
    THEN RStrip(SubSeq(s, 1, Len(s) - 1))
    ELSE s

\* str.strip()
Strip(s) == RStrip(LStrip(s))

\* Python's `sub in s` on strings: sub occurs in s as a contiguous run
In(sub, s) ==
    \E k \in 0..(Len(s) - Len(sub)) : SubSeq(s, k + 1, k + Len(sub)) = sub

\* Python's `x in list`
InList(x, list) == \E i \in 1..Len(list) : list[i] = x

Min(S) == CHOOSE m \in S : \A n \in S : m <= n

----------------------------------------------------------------------------
(* The page's dependent dropdowns *)

Dims == <<"region", "area", "distributor", "territory", "point">>

NDims == Len(Dims)

\* the labels used in the option trees
TxtX  == <<"x">>
TxtA  == <<"a">>
TxtB  == <<"b">>
TxtAB == <<"a", "b">>
TxtA_ == <<"a", " ">>
TxtSp == <<" ">>

\* The raw option lists (inner_text of each visible option, in page order) a
\* dropdown may show: none, one option, two unrelated options, one label a
\* substring of the other (either order), two options with the same label
\* once stripped, and an option with a blank label.
RawLists ==
    { <<>>, <<TxtA>>, <<TxtA, TxtB>>, <<TxtAB, TxtA>>, <<TxtA, TxtAB>>,
      <<TxtA, TxtA_>>, <<TxtSp, TxtA>> }

\* The pages: dimension t.dim offers t.top; the dimension after it offers
\* t.c1 when the option selected for t.dim is the first one of t.top and t.c2
\* when it is another one; every other dropdown offers the single option x.
Trees == [dim : 1..(NDims - 1), top : RawLists, c1 : RawLists, c2 : RawLists]

Pivot(t) == IF t.top = <<>> THEN <<>> ELSE Strip(t.top[1])

\* the raw options the page shows for the dimension after context ctx
\* (the labels selected for the dimensions before it)
Tree(t, ctx) ==
    LET d == Len(ctx) + 1
    IN  IF d = t.dim THEN t.top
        ELSE IF d = t.dim + 1
             THEN IF ctx[Len(ctx)] = Pivot(t) THEN t.c1 ELSE t.c2
             ELSE <<TxtX>>

\* page.locator('[role="option"]:visible').all() after opening dropdown d
VisibleOptions(t, sel, d) == Tree(t, SubSeq(sel, 1, d - 1))

RECURSIVE CollectTextsNoBlankFilter(_, _)
CollectTextsNoBlankFilter(raw, option_texts) ==
    IF raw = <<>> THEN option_texts
    ELSE LET text == Strip(Head(raw))
         IN  CollectTextsNoBlankFilter(Tail(raw),
                 IF ~InList(text, option_texts)
                 THEN Append(option_texts, text) ELSE option_texts)

\* get_dropdown_options, the loop over the options
RECURSIVE CollectTexts(_, _)
CollectTexts(raw, option_texts) ==
    IF raw = <<>> THEN option_texts
    ELSE LET text == Strip(Head(raw))
         IN  CollectTexts(Tail(raw),
                 IF text # <<>> /\ ~InList(text, option_texts)
                 THEN Append(option_texts, text) ELSE option_texts)

\* get_dropdown_options: [] when a driver call raises (fault) or when no
\* option becomes visible (wait_for_selector times out)
get_dropdown_options(t, sel, d, fault) ==
    IF fault \/ VisibleOptions(t, sel, d) = <<>> THEN <<>>
    ELSE CollectTexts(VisibleOptions(t, sel, d), <<>>)

\* the test of select_dropdown_option on one option
Matches(option_text, option_inner_text) ==
    In(option_text, option_inner_text) \/ In(option_inner_text, option_text)

\* select_dropdown_option: clicks the first visible option that matches and
\* returns True; False when none matches or a driver call raises (fault). The
\* click sets dimension d of the page's selection to the clicked option.
select_dropdown_option(t, sel, d, option_text, fault) ==
    LET raw  == VisibleOptions(t, sel, d)
        hits == {i \in 1..Len(raw) : Matches(option_text, Strip(raw[i]))}
    IN  IF fault \/ hits = {}
        THEN [ok |-> FALSE, sel |-> sel]
        ELSE [ok |-> TRUE,
              sel |-> Append(SubSeq(sel, 1, d - 1), Strip(raw[Min(hits)]))]

\* clear_all_filters
clear_all_filters(sel) == <<>>

----------------------------------------------------------------------------
(* build_complete_filter_chains *)

\* Python's list[:k] for an integer k
SliceTo(list, k) ==
    IF k >= 0
    THEN SubSeq(list, 1, IF k < Len(list) THEN k ELSE Len(list))
    ELSE SubSeq(list, 1, IF Len(list) + k > 0 THEN Len(list) + k ELSE 0)

ApplyLimitNoSlice(list, limit) == list

\* `if FILTER_LIMITS[dim]: options = options[:FILTER_LIMITS[dim]]`
ApplyLimit(list, limit) ==
    IF limit # None /\ limit # Limit(0) THEN SliceTo(list, limit[1]) ELSE list

ChainOf(prefix, point) ==
    [region |-> prefix[1], area |-> prefix[2], distributor |-> prefix[3],
     territory |-> prefix[4], point |-> point]

\* the loop variables of the active loops: region, area, ...
Prefix(ls) == [j \in 1..Len(ls) |-> ls[j].opts[ls[j].i]]

\* `continue` or the end of a loop body: the innermost loop that has a next
\* option takes it; loops without one are left
AdvanceAbort(ls) == <<>>

\* the next option of the enclosing loop taken with the options of the inner
\* loop kept
AdvanceCached(ls) ==
    IF ls = <<>> THEN <<>>
    ELSE IF ls[Len(ls)].i < Len(ls[Len(ls)].opts)
         THEN [ls EXCEPT ![Len(ls)].i = @ + 1]
         ELSE IF Len(ls) >= 2 /\ ls[Len(ls) - 1].i < Len(ls[Len(ls) - 1].opts)
              THEN [ls EXCEPT ![Len(ls) - 1].i = @ + 1, ![Len(ls)].i = 1]
              ELSE <<>>

RECURSIVE Advance(_)
Advance(ls) ==
    IF ls = <<>> THEN <<>>
    ELSE IF ls[Len(ls)].i < Len(ls[Len(ls)].opts)
         THEN [ls EXCEPT ![Len(ls)].i = @ + 1]
         ELSE Advance(SubSeq(ls, 1, Len(ls) - 1))

\* the selections at the head of a loop body, from dimension j on:
\* `if not select_dropdown_option(...): continue` for each dimension of the
\* prefix in turn; f is the call that raises (0: none)
RECURSIVE ApplyPrefix(_, _, _, _, _, _)
ApplyPrefix(t, sel, prefix, j, f, log) ==
    IF j > Len(prefix) THEN [ok |-> TRUE, sel |-> sel, log |-> log]
    ELSE LET r == select_dropdown_option(t, sel, j, prefix[j], f = j)
             l == Append(log, <<"select", j, prefix[j]>>)
         IN  IF r.ok THEN ApplyPrefix(t, r.sel, prefix, j + 1, f, l)
             ELSE [ok |-> FALSE, sel |-> r.sel, log |-> l]

MaxFaults == 1

\* lines 414-426
BuildStart ==
    /\ ex_pc = "start"
    /\ \E fault \in BOOLEAN :
         /\ fault => faults < MaxFaults
         /\ LET sel     == clear_all_filters(uiSel)
                regions == ApplyLimit(get_dropdown_options(uiTree, sel, 1, fault),
                                      FILTER_LIMITS["region"])
            IN  /\ uiSel' = sel
                /\ driverLog' = <<<<"clear">>, <<"list", 1>>>>
                /\ faults' = faults + (IF fault THEN 1 ELSE 0)
                /\ IF regions = <<>>
                   THEN ex_pc' = "done" /\ loops' = <<>>
                   ELSE ex_pc' = "loop" /\ loops' = <<[opts |-> regions, i |-> 1]>>
    /\ UNCHANGED <<uiTree, FILTER_LIMITS, complete_chains, explored>>
    /\ UNCHANGED <<vfVars, view, flVars, apVars>>
    /\ UNCHANGED runVars

\* One run of the body of the k-th loop (1: for region in regions, ...,
\* 4: for territory in territories) for its current option. f is the driver
\* call of the body that raises: 0 none, 1..k the selection of that
\* dimension, k+1 the listing of the next dimension.
LoopBody(k, f) ==
    /\ ex_pc = "loop"
    /\ Len(loops) = k
    /\ f # 0 => faults < MaxFaults
    /\ LET prefix == Prefix(loops)
           r      == ApplyPrefix(uiTree, clear_all_filters(uiSel), prefix, 1, f,
                                 <<<<"clear">>>>)
           opts   == ApplyLimit(get_dropdown_options(uiTree, r.sel, k + 1, f = k + 1),
                                FILTER_LIMITS[Dims[k + 1]])
           after  == IF r.ok /\ k < NDims - 1 /\ opts # <<>>
                     THEN Append(loops, [opts |-> opts, i |-> 1])
                     ELSE Advance(loops)
       IN  /\ uiSel' = r.sel
           /\ driverLog' = IF r.ok THEN Append(r.log, <<"list", k + 1>>) ELSE r.log
           /\ complete_chains' =
                IF r.ok /\ k = NDims - 1
                THEN complete_chains \o [p \in 1..Len(opts) |-> ChainOf(prefix, opts[p])]
                ELSE complete_chains
           /\ loops' = after
           /\ ex_pc' = IF after = <<>> THEN "done" ELSE "loop"
           /\ explored' = explored \cup {prefix}
           /\ faults' = faults + (IF f # 0 THEN 1 ELSE 0)
    /\ UNCHANGED <<uiTree, FILTER_LIMITS>>
    /\ UNCHANGED <<vfVars, view, flVars, apVars>>
    /\ UNCHANGED runVars

\* lines 428-439
RegionLoop == \E f \in 0..2 : LoopBody(1, f)

\* lines 441-455
AreaLoop == \E f \in 0..3 : LoopBody(2, f)

\* lines 457-474
DistributorLoop == \E f \in 0..4 : LoopBody(3, f)

\* lines 476-506
TerritoryLoop == \E f \in 0..5 : LoopBody(4, f)

NoLimits == [d \in {Dims[i] : i \in 1..NDims} |-> None]

\* verify_filters not called
VerifierIdle ==
    /\ data = <<>>
    /\ filters = <<>>
    /\ vf_pc = "idle"
    /\ verification_result = <<>>

\* run_comprehensive_test not called
RunIdle ==
    /\ run_pc = "idle"
    /\ results = <<>>
    /\ summary = <<>>
    /\ run_error = FALSE
    /\ runLog = <<>>

\* the collectors not called
CollectorsIdle ==
    /\ view = <<>>
    /\ fl_pc = "idle"
    /\ fl_cur = 1
    /\ fl_data = <<>>
    /\ fl_log = <<>>
    /\ ap_pc = "idle"
    /\ ap_cur = 1
    /\ all_data = <<>>
    /\ seen_data = {}
    /\ visited_pages = {}
    /\ ap_log = <<>>

InitExplorer ==
    /\ VerifierIdle
    /\ CollectorsIdle
    /\ RunIdle
    /\ uiTree \in Trees
    /\ uiSel = <<>>
    /\ FILTER_LIMITS = NoLimits
    /\ ex_pc = "start"
    /\ loops = <<>>
    /\ complete_chains = <<>>
    /\ explored = {}
    /\ driverLog = <<>>
    /\ faults = 0

NextExplorer ==
    \/ BuildStart
    \/ RegionLoop
    \/ AreaLoop
    \/ DistributorLoop
    \/ TerritoryLoop

SpecExplorer == InitExplorer /\ [][NextExplorer]_vars

----------------------------------------------------------------------------
(* The Explorer under FILTER_LIMITS *)

MaxLimit == 2

\* option lists long enough for a limit of MaxLimit to cut them
LimitLists == { <<TxtA>>, <<TxtA, TxtB>>, <<TxtA, TxtB, TxtAB>> }

LimitTrees == [dim : 1..(NDims - 1), top : LimitLists, c1 : LimitLists, c2 : LimitLists]

\* the configurations: every dimension unlimited or limited to k
LimitConfigs ==
    UNION { [{Dims[i] : i \in 1..NDims} -> {None, Limit(k)}] : k \in 0..MaxLimit }

InitLimits ==
    /\ VerifierIdle
    /\ CollectorsIdle
    /\ RunIdle
    /\ uiTree \in LimitTrees
    /\ uiSel = <<>>
    /\ FILTER_LIMITS \in LimitConfigs
    /\ ex_pc = "start"
    /\ loops = <<>>
    /\ complete_chains = <<>>
    /\ explored = {}
    /\ driverLog = <<>>
    /\ faults = MaxFaults

SpecLimits == InitLimits /\ [][NextExplorer]_vars

----------------------------------------------------------------------------
(* get_table_data and verify_filters *)

Fields == <<"name", "code", "region", "area", "distributor", "territory", "point">>

NFields == Len(Fields)

\* get_table_data, one row (the texts of its td cells): a record of the first
\* 7 cells, stripped; a shorter row gives none
RowData(cells) ==
    IF Len(cells) >= NFields
    THEN <<[f \in {Fields[i] : i \in 1..NFields} |->
              Strip(cells[CHOOSE i \in 1..NFields : Fields[i] = f])]>>
    ELSE <<>>

\* get_table_data: the records of the rows of the table, in order; [] when a
\* driver call raises (fault)
RECURSIVE TableData(_)
TableData(rows) ==
    IF rows = <<>> THEN <<>> ELSE RowData(Head(rows)) \o TableData(Tail(rows))

get_table_data(rows, fault) == IF fault THEN <<>> ELSE TableData(rows)

\* record.get(field, '')
Get(record, field) == IF field \in DOMAIN record THEN record[field] ELSE <<>>

\* filter_mapping
filter_mapping == [d \in {Dims[i] : i \in 1..NDims} |-> d]

\* the test of line 383, negated: the record passes the filter
PassesBothWays(filter_value, record_value) ==
    In(Lower(filter_value), Lower(record_value))
        \/ In(Lower(record_value), Lower(filter_value))

PassesCaseSensitive(filter_value, record_value) == In(filter_value, record_value)

Passes(filter_value, record_value) ==
    In(Lower(filter_value), Lower(record_value))

\* f"{filter_key}: expected '{filter_value}', got '{record_value}'"
Issue(filter_key, filter_value, record_value) ==
    <<filter_key, ": expected '", filter_value, "', got '", record_value, "'">>

\* lines 378-385 for the filters from the i-th on: the issues of one record
RECURSIVE RecordIssues(_, _, _)
RecordIssues(record, flt, i) ==
    IF i > NDims THEN <<>>
    ELSE LET filter_key   == Dims[i]
             record_value == Strip(Get(record, filter_mapping[filter_key]))
         IN  (IF ~Passes(flt[filter_key], record_value)
              THEN <<Issue(filter_key, flt[filter_key], record_value)>>
              ELSE <<>>)
             \o RecordIssues(record, flt, i + 1)

\* is_valid set to True once, before the loop over the records
RECURSIVE CheckRecordsOnce(_, _, _, _)
CheckRecordsOnce(records, flt, n, acc) ==
    IF n > Len(records) THEN acc
    ELSE LET record_issues == RecordIssues(records[n], flt, 1)
         IN  CheckRecordsOnce(records, flt, n + 1,
                 IF record_issues = <<>> /\ acc.invalid_records = <<>>
                 THEN [acc EXCEPT !.valid_records = @ + 1]
                 ELSE [acc EXCEPT !.invalid_records =
                          Append(@, [record |-> records[n], issues |-> record_issues])])

\* lines 374-393: [valid_records, invalid_records] after the records from
\* the n-th on
RECURSIVE CheckRecords(_, _, _, _)
CheckRecords(records, flt, n, acc) ==
    IF n > Len(records) THEN acc
    ELSE LET record_issues == RecordIssues(records[n], flt, 1)
         IN  CheckRecords(records, flt, n + 1,
                 IF record_issues = <<>>
                 THEN [acc EXCEPT !.valid_records = @ + 1]
                 ELSE [acc EXCEPT !.invalid_records =
                          Append(@, [record |-> records[n], issues |-> record_issues])])

CompliantCountOfValid(records, flt, filter_key) ==
    Cardinality({n \in 1..Len(records) : RecordIssues(records[n], flt, 1) = <<>>})

\* lines 398-399
CompliantCount(records, flt, filter_key) ==
    Cardinality({n \in 1..Len(records) :
        Passes(flt[filter_key], Get(records[n], filter_mapping[filter_key]))})

\* line 403; the quotient compliant_count / len(data) * 100 is kept exact, as
\* the fraction num / den
Percentage(compliant_count, total) ==
    IF total # 0 THEN [num |-> compliant_count * 100, den |-> total]
    ELSE [num |-> 0, den |-> 1]

\* lines 396-404
Compliance(records, flt) ==
    [filter_key \in {Dims[i] : i \in 1..NDims} |->
        [compliant  |-> CompliantCount(records, flt, filter_key),
         total      |-> Len(records),
         percentage |-> Percentage(CompliantCount(records, flt, filter_key),
                                   Len(records))]]

verify_filters(records, flt) ==
    LET checked == CheckRecords(records, flt, 1,
                       [valid_records |-> 0, invalid_records |-> <<>>])
    IN  [total_records     |-> Len(records),
         valid_records     |-> checked.valid_records,
         invalid_records   |-> checked.invalid_records,
         filter_compliance |-> Compliance(records, flt)]

VerifyFilters ==
    /\ vf_pc = "call"
    /\ verification_result' = verify_filters(data, filters)
    /\ vf_pc' = "returned"
    /\ UNCHANGED <<data, filters>>
    /\ UNCHANGED <<exVars, view, flVars, apVars, runVars>>

\* the cell texts of the tables and the values of the chains: cell " aB "
\* passes filter "Ab" (up to case, once stripped) and fails filter "bA";
\* cell "Ba" passes "bA" and fails "Ab"
CellTexts == { <<" ", "a", "B", " ">>, <<"B", "a">> }

FilterTexts == { <<"A", "b">>, <<"b", "A">> }

MaxRecords == 2

\* the rows of a table: name and code fixed; the region, area and
\* distributor cells free, the territory cell as the region cell and the
\* point cell as the area cell
TableRows ==
    { <<<<"n">>, <<"c">>, cells[1], cells[2], cells[3], cells[1], cells[2]>> :
          cells \in [1..3 -> CellTexts] }

Tables == UNION { [1..n -> TableRows] : n \in 0..MaxRecords }

Chains == [{Dims[i] : i \in 1..NDims} -> FilterTexts]

\* the texts of the examples of the matching rule
Dhaka      == <<"D", "h", "a", "k", "a">>
North      == <<"N", "o", "r", "t", "h">>
DhakaNorth == Dhaka \o <<" ">> \o North
Chittagong == <<"C", "h", "i", "t", "t", "a", "g", "o", "n", "g">>

ExampleCells == { DhakaNorth, Chittagong, Dhaka }

ExampleFilters == { Dhaka, North, DhakaNorth, Lower(Dhaka) }

\* a table of one row with the same text in the 5 filtered columns
ExampleTables ==
    { <<<<<<"n">>, <<"c">>>> \o [i \in 1..NDims |-> cell]>> : cell \in ExampleCells }

ExampleChains ==
    { [d \in {Dims[i] : i \in 1..NDims} |-> value] : value \in ExampleFilters }

ExplorerIdle ==
    /\ uiTree = <<>>
    /\ uiSel = <<>>
    /\ FILTER_LIMITS = NoLimits
    /\ ex_pc = "idle"
    /\ loops = <<>>
    /\ complete_chains = <<>>
    /\ explored = {}
    /\ driverLog = <<>>
    /\ faults = 0

\* verify_filters called with records read from a table and a chain
InitVerify ==
    /\ ExplorerIdle
    /\ CollectorsIdle
    /\ RunIdle
    /\ \/ /\ data \in {get_table_data(rows, FALSE) : rows \in Tables}
          /\ filters \in Chains
       \/ /\ data \in {get_table_data(rows, FALSE) : rows \in ExampleTables}
          /\ filters \in ExampleChains
    /\ vf_pc = "call"
    /\ verification_result = <<>>

NextVerify == VerifyFilters

SpecVerify == InitVerify /\ [][NextVerify]_vars

\* verify_filters called with any list of records and any chain: the values
\* of the region and area fields and filters may begin or end with a space,
\* and a record may lack its region field
AnyTexts == { <<"a">>, <<" ", "a">>, <<"A", " ">>, <<"b">> }

AnyFilterTexts == { <<"a">>, <<" ", "a">>, <<"a", " ">> }

AnyRecords ==
    { [f \in {Fields[i] : i \in 1..NFields} |->
          CASE f = "region" -> region [] f = "area" -> area [] OTHER -> TxtX] :
          region \in AnyTexts, area \in AnyTexts }
    \cup { [f \in {Fields[i] : i \in 1..NFields} \ {"region"} |->
               IF f = "area" THEN area ELSE TxtX] : area \in AnyTexts }

AnyTables == UNION { [1..n -> AnyRecords] : n \in 0..MaxRecords }

AnyChains ==
    { [d \in {Dims[i] : i \in 1..NDims} |->
          CASE d = "region" -> region [] d = "area" -> area [] OTHER -> TxtX] :
          region \in AnyFilterTexts, area \in AnyFilterTexts }

InitVerifyAny ==
    /\ ExplorerIdle
    /\ CollectorsIdle
    /\ RunIdle
    /\ data \in AnyTables
    /\ filters \in AnyChains
    /\ vf_pc = "call"
    /\ verification_result = <<>>

SpecVerifyAny == InitVerifyAny /\ [][NextVerify]_vars

----------------------------------------------------------------------------
(* The paginated result table *)

Digits == {"0", "1", "2", "3", "4", "5", "6", "7", "8", "9"}

\* str.isdigit()
IsDigit(text) == text # <<>> /\ \A i \in 1..Len(text) : text[i] \in Digits

DigitValue(c) ==
    CASE c = "0" -> 0 [] c = "1" -> 1 [] c = "2" -> 2 [] c = "3" -> 3
      [] c = "4" -> 4 [] c = "5" -> 5 [] c = "6" -> 6 [] c = "7" -> 7
      [] c = "8" -> 8 [] c = "9" -> 9

\* int(text) for a text of digits
RECURSIVE ParseInt(_)
ParseInt(text) ==
    IF text = <<>> THEN 0
    ELSE ParseInt(SubSeq(text, 1, Len(text) - 1)) * 10 + DigitValue(text[Len(text)])

DigitChar(n) == CHOOSE c \in Digits : DigitValue(c) = n

\* the label of the numbered control of page n
RECURSIVE PageLabel(_)
PageLabel(n) ==
    IF n < 10 THEN <<DigitChar(n)>>
    ELSE Append(PageLabel(n \div 10), DigitChar(n % 10))

TxtNext == <<"N", "e", "x", "t">>

\* the rows of the result pages: the row of a retailer, by its name
RowOf(name) == <<name, <<"c">>, TxtX, TxtX, TxtX, TxtX, TxtX>>

RowP == RowOf(<<"p">>)
RowQ == RowOf(<<"q">>)
RowR == RowOf(<<"r">>)
RowS == RowOf(<<"s">>)

\* the rows a result page may show: none, one row, two rows, the same row twice
PageContents ==
    { <<>>, <<RowP>>, <<RowR>>, <<RowP, RowQ>>, <<RowP, RowP>> }

MaxPages == 3

\* the Next control: absent; bounded: disabled on the last page; always: never
\* disabled, a click on the last page shows the last page again
NextModes == {"absent", "bounded", "always"}

\* the numbered controls: absent; all: one per page; window: those of the
\* page shown and of its neighbours
BarModes == {"absent", "all", "window"}

\* the view of the example: 2 pages of 3 and 2 records, 1 of them on both
ExampleView ==
    [pages |-> <<<<RowP, RowQ, RowR>>, <<RowR, RowS>>>>, next |-> "bounded",
     bar |-> "all", role |-> TRUE]

\* a view of 10 pages, whose numbered controls carry the labels "1" to "10":
\* the last page is the only one to show the retailer q
ManyPagesView ==
    [pages |-> [n \in 1..10 |-> CASE n = 10 -> <<RowP, RowQ>>
                                  [] n = 9  -> <<RowR>>
                                  [] OTHER  -> <<RowP>>],
     next |-> "bounded", bar |-> "all", role |-> TRUE]

\* role: the numbered controls, which are button.mantine-Pagination-control
\* elements, also carry the attribute role="button"
Views ==
    { v \in [pages : UNION { [1..n -> PageContents] : n \in 1..MaxPages },
             next : NextModes, bar : BarModes, role : BOOLEAN] :
        v.bar = "absent" => ~v.role }
        \cup {ExampleView, ManyPagesView}

\* the page numbers of the visible numbered controls, in page order
NumberedPages(v, cur) ==
    LET last == Len(v.pages)
        lo   == IF cur > 1 THEN cur - 1 ELSE 1
        hi   == IF cur < last THEN cur + 1 ELSE last
    IN  CASE v.bar = "absent" -> <<>>
          [] v.bar = "all"    -> [i \in 1..last |-> i]
          [] v.bar = "window" -> [i \in 1..(hi - lo + 1) |-> lo + i - 1]

\* page.locator("button.mantine-Pagination-control"): the texts of the visible
\* pagination buttons, in page order: the numbered controls, then the Next
\* control
Controls(v, cur) ==
    [i \in 1..Len(NumberedPages(v, cur)) |-> PageLabel(NumberedPages(v, cur)[i])]
        \o (IF v.next # "absent" THEN <<TxtNext>> ELSE <<>>)

\* page.locator('button[role="button"]'): the texts of the visible buttons that
\* carry the role attribute
RoleButtons(v, cur) == IF v.role THEN Controls(v, cur) ELSE <<>>

\* next_button.count() > 0 and is_visible() and not disabled
NextEnabled(v, cur) ==
    v.next = "always" \/ (v.next = "bounded" /\ cur < Len(v.pages))

\* the page shown after a click on Next
GoNext(v, cur) == IF cur < Len(v.pages) THEN cur + 1 ELSE cur

\* str(row) of a record: its items in the order of insertion
StrOf(row) == [i \in 1..NFields |-> <<Fields[i], row[Fields[i]]>>]

\* set(map(str, records))
Strs(records) == {StrOf(records[i]) : i \in 1..Len(records)}

\* get_table_data on each table a page may show, computed once
PageReads ==
    [rows \in PageContents \cup {ExampleView.pages[n] : n \in 1..Len(ExampleView.pages)}
        |-> [fault \in BOOLEAN |-> get_table_data(rows, fault)]]

\* one page read: get_table_data on the page shown
ReadPage(v, cur, fault) ==
    IF v.pages[cur] \in DOMAIN PageReads THEN PageReads[v.pages[cur]][fault]
    ELSE get_table_data(v.pages[cur], fault)

----------------------------------------------------------------------------
(* get_first_and_last_page_data *)

\* text > other for two texts of digits, as str compares them: by the first
\* character in which they differ, a proper prefix being the smaller
RECURSIVE TextGreater(_, _)
TextGreater(text, other) ==
    IF text = <<>> THEN FALSE
    ELSE IF other = <<>> THEN TRUE
    ELSE IF Head(text) # Head(other)
         THEN DigitValue(Head(text)) > DigitValue(Head(other))
         ELSE TextGreater(Tail(text), Tail(other))

RECURSIVE FindLastPageAsText(_, _, _)
FindLastPageAsText(labels, i, best) ==
    IF i > Len(labels) THEN best
    ELSE FindLastPageAsText(labels, i + 1,
            IF IsDigit(labels[i])
               /\ (best.last_page_number = None
                   \/ TextGreater(labels[i], best.last_page_number))
            THEN [last_page_number |-> labels[i], last_button_index |-> i]
            ELSE best)

\* lines 227-240: the numbered button with the greatest number, the first of
\* them when several carry it
RECURSIVE FindLastPage(_, _, _)
FindLastPage(labels, i, best) ==
    IF i > Len(labels) THEN best
    ELSE FindLastPage(labels, i + 1,
            IF IsDigit(labels[i])
               /\ (best.last_page_number = None
                   \/ ParseInt(labels[i]) > ParseInt(best.last_page_number))
            THEN [last_page_number |-> labels[i], last_button_index |-> i]
            ELSE best)

\* lines 267-270: the rows not seen yet are appended, each once
RECURSIVE AppendUnseen(_, _)
AppendUnseen(rows, acc) ==
    IF rows = <<>> THEN acc
    ELSE AppendUnseen(Tail(rows),
            IF StrOf(Head(rows)) \notin acc.seen_data
            THEN [all_data  |-> Append(acc.all_data, Head(rows)),
                  seen_data |-> acc.seen_data \cup {StrOf(Head(rows))}]
            ELSE acc)

\* f1, f2: the read of the first, of the last page fails
get_first_and_last_page_data(v, cur, f1, f2) ==
    LET first_page_data == ReadPage(v, cur, f1)
        first == [all_data |-> first_page_data, seen_data |-> Strs(first_page_data)]
        found == FindLastPage(Controls(v, cur), 1,
                     [last_page_number |-> None, last_button_index |-> None])
        shown == ParseInt(found.last_page_number)
        last_page_data == ReadPage(v, shown, f2)
        both  == AppendUnseen(last_page_data, first)
    IN  IF found.last_page_number = None
        THEN [all_data |-> first.all_data, cur |-> cur,
              log |-> <<[content |-> first_page_data, added |-> first_page_data]>>]
        ELSE [all_data |-> both.all_data, cur |-> shown,
              log |-> <<[content |-> first_page_data, added |-> first_page_data],
                        [content |-> last_page_data,
                         added |-> SubSeq(both.all_data, Len(first_page_data) + 1,
                                          Len(both.all_data))]>>]

FirstLast ==
    /\ fl_pc = "call"
    /\ ap_pc = "returned"
    /\ \E f1, f2 \in BOOLEAN :
         LET n == (IF f1 THEN 1 ELSE 0) + (IF f2 THEN 1 ELSE 0)
             r == get_first_and_last_page_data(view, fl_cur, f1, f2)
         IN  /\ faults + n <= MaxFaults
             /\ f2 => Len(r.log) = 2
             /\ faults' = faults + n
             /\ fl_data' = r.all_data
             /\ fl_cur' = r.cur
             /\ fl_log' = r.log
    /\ fl_pc' = "returned"
    /\ UNCHANGED <<view, apVars, vfVars, runVars>>
    /\ UNCHANGED <<uiTree, uiSel, FILTER_LIMITS, ex_pc, loops, complete_chains,
                   explored, driverLog>>

----------------------------------------------------------------------------
(* get_all_pages_data *)

HasNewIfAny(new_data, seen) == new_data # <<>>

HasNewNever(new_data, seen) == FALSE

\* `if new_data and not all(d in seen_data for d in new_data_str)`
HasNew(new_data, seen) ==
    new_data # <<>> /\ ~(\A i \in 1..Len(new_data) : StrOf(new_data[i]) \in seen)

\* lines 305-311 and 334-340: the page read after an advance is added whole
\* when it holds a record not seen yet
AccumulateRead(st, new_data) ==
    LET grow == HasNew(new_data, st.seen_data)
    IN  [st EXCEPT
            !.all_data  = IF grow THEN @ \o new_data ELSE @,
            !.seen_data = IF grow THEN @ \cup Strs(new_data) ELSE @,
            !.moved_to_next = @ \/ grow,
            !.log = Append(@, [content |-> new_data,
                               added |-> IF grow THEN new_data ELSE <<>>])]

\* the page is read once: new_data is the value get_table_data returned
Accumulate(st, page_read) ==
    CHOOSE after \in { AccumulateRead(before, new_data) :
                          before \in {st}, new_data \in {page_read} } : TRUE

\* lines 323-344, one iteration of `for i in range(count)`: the i-th button is
\* looked up on the page as it is then. fi: the button whose page read fails
\* (0: none)
ScanButton(v, i, fi, st) ==
    LET labels == RoleButtons(v, st.cur)
    IN  IF i <= Len(labels) /\ IsDigit(labels[i])
             /\ labels[i] \notin st.visited_pages
        THEN Accumulate(
                 [st EXCEPT !.visited_pages = @ \cup {labels[i]},
                            !.cur = ParseInt(labels[i]),
                            !.failed = @ \/ fi = i],
                 ReadPage(v, ParseInt(labels[i]), fi = i))
        ELSE st

\* lines 322-344: the buttons from the i-th on, of the count taken before the
\* loop
RECURSIVE ScanButtons(_, _, _, _, _)
ScanButtons(v, count, i, fi, st) ==
    IF i > count THEN st
    ELSE CHOOSE r \in { ScanButtons(v, count, i + 1, fi, after) :
                            after \in {ScanButton(v, i, fi, st)} } : TRUE

ApState ==
    [cur |-> ap_cur, all_data |-> all_data, seen_data |-> seen_data,
     visited_pages |-> visited_pages, log |-> ap_log, moved_to_next |-> FALSE,
     failed |-> FALSE]

SetApState(st) ==
    /\ ap_cur' = st.cur
    /\ all_data' = st.all_data
    /\ seen_data' = st.seen_data
    /\ visited_pages' = st.visited_pages
    /\ ap_log' = st.log

\* lines 281-289
AllPagesStart ==
    /\ ap_pc = "call"
    /\ \E fault \in BOOLEAN :
         LET page_data == ReadPage(view, ap_cur, fault)
         IN  /\ fault => faults < MaxFaults
             /\ faults' = faults + (IF fault THEN 1 ELSE 0)
             /\ all_data' = page_data
             /\ seen_data' = Strs(page_data)
             /\ ap_log' = <<[content |-> page_data, added |-> page_data]>>
    /\ ap_pc' = "next"
    /\ UNCHANGED <<ap_cur, visited_pages, view, flVars, vfVars, runVars>>
    /\ UNCHANGED <<uiTree, uiSel, FILTER_LIMITS, ex_pc, loops, complete_chains,
                   explored, driverLog>>

\* lines 292-315: the head of an iteration of `while True`; with new records
\* after the click on Next the iteration ends there (continue)
AllPagesNext ==
    /\ ap_pc = "next"
    /\ \E fault \in BOOLEAN :
         \E st \in { IF NextEnabled(view, ap_cur)
                     THEN Accumulate([ApState EXCEPT !.cur = GoNext(view, ap_cur)],
                                     ReadPage(view, GoNext(view, ap_cur), fault))
                     ELSE ApState } :
             /\ fault => faults < MaxFaults /\ NextEnabled(view, ap_cur)
             /\ faults' = faults + (IF fault THEN 1 ELSE 0)
             /\ SetApState(st)
             /\ ap_pc' = IF st.moved_to_next THEN "next" ELSE "scan"
    /\ UNCHANGED <<view, flVars, vfVars, runVars>>
    /\ UNCHANGED <<uiTree, uiSel, FILTER_LIMITS, ex_pc, loops, complete_chains,
                   explored, driverLog>>

\* lines 317-350: the rest of the iteration
AllPagesScan ==
    /\ ap_pc = "scan"
    /\ \E fi \in 0..Len(RoleButtons(view, ap_cur)) :
         \E st \in { ScanButtons(view, Len(RoleButtons(view, ap_cur)), 1, fi,
                                 ApState) } :
             /\ fi # 0 => faults < MaxFaults /\ st.failed
             /\ faults' = faults + (IF fi # 0 THEN 1 ELSE 0)
             /\ SetApState(st)
             /\ ap_pc' = IF st.moved_to_next THEN "next" ELSE "returned"
    /\ UNCHANGED <<view, flVars, vfVars, runVars>>
    /\ UNCHANGED <<uiTree, uiSel, FILTER_LIMITS, ex_pc, loops, complete_chains,
                   explored, driverLog>>

\* Each collector is called on the first result page of a view, as after the
\* chain is applied. The two calls are independent, each with its own cursor;
\* get_all_pages_data is run first.
InitCollect ==
    /\ ExplorerIdle
    /\ VerifierIdle
    /\ RunIdle
    /\ view \in Views
    /\ fl_pc = "call"
    /\ fl_cur = 1
    /\ fl_data = <<>>
    /\ fl_log = <<>>
    /\ ap_pc = "call"
    /\ ap_cur = 1
    /\ all_data = <<>>
    /\ seen_data = {}
    /\ visited_pages = {}
    /\ ap_log = <<>>

NextCollect ==
    \/ FirstLast
    \/ AllPagesStart
    \/ AllPagesNext
    \/ AllPagesScan

SpecCollect == InitCollect /\ [][NextCollect]_vars

\* the call of get_all_pages_data runs on: the step it is at is taken in the end
AllPages == AllPagesStart \/ AllPagesNext \/ AllPagesScan

SpecCollectFair == SpecCollect /\ WF_vars(AllPages)

----------------------------------------------------------------------------
(* What the page offers, for the statements about the Explorer *)

\* the OptionSet of the dimension after ctx: the labels offered, blank ones
\* dropped, each once, in page order
OptionSet(t, ctx) == CollectTexts(Tree(t, ctx), <<>>)

ChainSeq(c) == <<c.region, c.area, c.distributor, c.territory, c.point>>

\* the root-to-leaf paths of the option tree below ctx, depth first
RECURSIVE PathsFrom(_, _)
RECURSIVE PathsOver(_, _, _)
PathsFrom(t, ctx) ==
    IF Len(ctx) = NDims THEN <<ctx>> ELSE PathsOver(t, ctx, OptionSet(t, ctx))
PathsOver(t, ctx, opts) ==
    IF opts = <<>> THEN <<>>
    ELSE PathsFrom(t, Append(ctx, Head(opts))) \o PathsOver(t, ctx, Tail(opts))

\* the contexts of the first n dimensions the page can be put in by clicking
\* options
RECURSIVE Contexts(_, _)
Contexts(t, n) ==
    IF n = 0 THEN {<<>>}
    ELSE UNION { {Append(c, Strip(Tree(t, c)[i])) : i \in 1..Len(Tree(t, c))}
                 : c \in Contexts(t, n - 1) }

Max(S) == CHOOSE m \in S : \A n \in S : m >= n

\* the largest OptionSet of dimension d
DomainSize(t, d) == Max({0} \cup {Len(OptionSet(t, c)) : c \in Contexts(t, d - 1)})

Blank(s) == Strip(s) = <<>>

\* every option of the page has a label
NoBlankOption(t) ==
    \A list \in {t.top, t.c1, t.c2} : \A i \in 1..Len(list) : ~Blank(list[i])

----------------------------------------------------------------------------
(* C1: every chain build_complete_filter_chains returns has a value for each
   of the 5 dimensions, and none of the values is empty or whitespace-only,
   whatever the option tree and whichever driver calls fail. *)
ChainCompleteness ==
    \A n \in 1..Len(complete_chains) :
        /\ DOMAIN complete_chains[n] = {Dims[i] : i \in 1..NDims}
        /\ \A i \in 1..NDims : ~Blank(complete_chains[n][Dims[i]])

\* a run that ended with chains, on a page that shows a blank option, after a
\* driver call failed
ChainCompletenessWitness ==
    /\ ex_pc = "done"
    /\ complete_chains # <<>>
    /\ faults > 0
    /\ \E i \in 1..Len(uiTree.top) : Blank(uiTree.top[i])

(* C2: every chain is a valid combination of the page's hierarchy: its value
   for each dimension is in the OptionSet the page offers when the dimensions
   before it are set to the chain's own values. Stated for the pages whose
   options all have a label, among them the pages of the claim, where one
   label is a substring of another label of the same dropdown. *)
ChainsRespectHierarchy ==
    NoBlankOption(uiTree) =>
    \A n \in 1..Len(complete_chains) :
        \A d \in 1..NDims :
            InList(ChainSeq(complete_chains[n])[d],
                   OptionSet(uiTree, SubSeq(ChainSeq(complete_chains[n]), 1, d - 1)))

(* C3: with no limits and no failed selection, the chains returned are the
   root-to-leaf paths of the page's option tree, one chain per path, in
   depth-first order. Stated for the pages whose options all have a label. *)
OneChainPerPath ==
    (ex_pc = "done" /\ faults = 0 /\ FILTER_LIMITS = NoLimits
        /\ NoBlankOption(uiTree)) =>
        LET paths == PathsFrom(uiTree, <<>>)
        IN  complete_chains =
                [n \in 1..Len(paths) |-> ChainOf(paths[n], paths[n][NDims])]

(* C4: with every limit either unset or a positive integer, at most
   FILTER_LIMITS["region"] distinct regions are selected, and the number of
   chains is at most the product over the dimensions of the limit where one
   is set and of the largest OptionSet of the dimension where none is. *)
LimitsPositive ==
    \A i \in 1..NDims : FILTER_LIMITS[Dims[i]] = None \/ FILTER_LIMITS[Dims[i]][1] > 0

DimBound(d) ==
    IF FILTER_LIMITS[Dims[d]] # None THEN FILTER_LIMITS[Dims[d]][1]
    ELSE DomainSize(uiTree, d)

CapEnforcement ==
    LimitsPositive =>
        /\ FILTER_LIMITS["region"] # None =>
               Cardinality({p[1] : p \in explored}) <= FILTER_LIMITS["region"][1]
        /\ Len(complete_chains) <=
               DimBound(1) * DimBound(2) * DimBound(3) * DimBound(4) * DimBound(5)

\* a finished run in which the region limit cut the regions offered and the
\* number of chains is the whole product
CapEnforcementWitness ==
    /\ ex_pc = "done"
    /\ LimitsPositive
    /\ FILTER_LIMITS["region"] # None
    /\ FILTER_LIMITS["region"][1] < Len(OptionSet(uiTree, <<>>))
    /\ Cardinality({p[1] : p \in explored}) = FILTER_LIMITS["region"][1]
    /\ Len(complete_chains) > 1
    /\ Len(complete_chains) =
           DimBound(1) * DimBound(2) * DimBound(3) * DimBound(4) * DimBound(5)

----------------------------------------------------------------------------
(* The report of verify_filters, for the statements about it *)

Returned == vf_pc = "returned"

\* the substring rule: the lower-cased filter value occurs in the lower-cased
\* field value as a contiguous run
SubstringRule(filter_value, field_value) ==
    \E k \in 0..(Len(field_value) - Len(filter_value)) :
        \A i \in 1..Len(filter_value) :
            LowerChar(field_value[k + i]) = LowerChar(filter_value[i])

DimSet == {Dims[i] : i \in 1..NDims}

\* the dimensions in which the n-th record fails the rule
FailingDims(n) == {d \in DimSet : ~SubstringRule(filters[d], data[n][d])}

InvalidIndexes == {n \in 1..Len(data) : FailingDims(n) # {}}

\* the index in data of the j-th record that fails the rule
NthInvalid(j) ==
    CHOOSE n \in InvalidIndexes :
        Cardinality({m \in InvalidIndexes : m <= n}) = j

\* the report has an issue of dimension d for the n-th record
HasIssue(n, d) ==
    \E j \in 1..Len(verification_result.invalid_records) :
        /\ verification_result.invalid_records[j].record = data[n]
        /\ \E k \in 1..Len(verification_result.invalid_records[j].issues) :
               verification_result.invalid_records[j].issues[k][1] = d

(* C5: verify_filters counts a record as valid exactly when its field passes
   the substring rule for each of the 5 dimensions of the chain; the other
   records are the entries of invalid_records, once each and in order, each
   with one message "<dim>: expected '<X>', got '<Y>'" per failing dimension
   and none for a passing one. *)
RecordValidity ==
    Returned =>
        /\ verification_result.valid_records =
               Cardinality({n \in 1..Len(data) : FailingDims(n) = {}})
        /\ Len(verification_result.invalid_records) = Cardinality(InvalidIndexes)
        /\ \A j \in 1..Len(verification_result.invalid_records) :
               LET entry == verification_result.invalid_records[j]
                   n     == NthInvalid(j)
               IN  /\ entry.record = data[n]
                   /\ Len(entry.issues) = Cardinality(FailingDims(n))
                   /\ \A d \in FailingDims(n) :
                          \E k \in 1..Len(entry.issues) :
                              entry.issues[k] =
                                  <<d, ": expected '", filters[d], "', got '",
                                    data[n][d], "'">>

\* a report on a valid record and a record that fails two dimensions and
\* passes three
RecordValidityWitness ==
    /\ Returned
    /\ Len(data) = 2
    /\ FailingDims(1) = {}
    /\ Cardinality(FailingDims(2)) = 2
    /\ verification_result.valid_records = 1
    /\ Len(verification_result.invalid_records) = 1
    /\ Len(verification_result.invalid_records[1].issues) = 2

(* C6: the matching rule is one-directional and case-insensitive: a record
   gets no issue for a dimension exactly when the lower-cased filter value
   occurs in the lower-cased field value. Filters 'Dhaka' and 'North' match
   field 'Dhaka North'; filter 'Dhaka' does not match 'Chittagong'; filter
   'Dhaka North' does not match field 'Dhaka'. *)
MatchingRule ==
    Returned =>
        \A n \in 1..Len(data) : \A d \in DimSet :
            /\ ~HasIssue(n, d) <=> SubstringRule(filters[d], data[n][d])
            /\ (filters[d] \in {Dhaka, North, Lower(Dhaka)} /\ data[n][d] = DhakaNorth)
                   => ~HasIssue(n, d)
            /\ (filters[d] = Dhaka /\ data[n][d] = Chittagong) => HasIssue(n, d)
            /\ (filters[d] = DhakaNorth /\ data[n][d] = Dhaka) => HasIssue(n, d)

\* the report on field 'Dhaka' under filter 'Dhaka North'
MatchingRuleWitness ==
    /\ Returned
    /\ Len(data) = 1
    /\ filters["region"] = DhakaNorth
    /\ data[1]["region"] = Dhaka
    /\ HasIssue(1, "region")

(* C7: for each dimension on its own, compliant is the number of records
   whose field passes the rule, total the number of records and percentage
   compliant / total * 100; for no records the report is total_records 0,
   valid_records 0, no invalid_records, and an entry compliant 0, total 0,
   percentage 0 for each of the 5 dimensions. *)
AggregateCompliance ==
    Returned =>
        /\ DOMAIN verification_result.filter_compliance = DimSet
        /\ verification_result.total_records = Len(data)
        /\ \A d \in DimSet :
               LET entry == verification_result.filter_compliance[d]
                   count == Cardinality({n \in 1..Len(data) :
                                SubstringRule(filters[d], data[n][d])})
               IN  /\ entry.compliant = count
                   /\ entry.total = Len(data)
                   /\ entry.percentage.den # 0
                   /\ Len(data) # 0 =>
                          entry.percentage.num * Len(data)
                              = count * 100 * entry.percentage.den
                   /\ Len(data) = 0 => entry.percentage.num = 0
        /\ data = <<>> =>
               /\ verification_result.valid_records = 0
               /\ verification_result.invalid_records = <<>>

\* a report with one dimension at 50 percent, one at 0 and one at 100
AggregateComplianceWitness ==
    /\ Returned
    /\ Len(data) = 2
    /\ verification_result.filter_compliance["region"].compliant = 1
    /\ verification_result.filter_compliance["region"].percentage
           = [num |-> 100, den |-> 2]
    /\ verification_result.filter_compliance["area"].compliant = 0
    /\ verification_result.filter_compliance["point"].compliant = 2

----------------------------------------------------------------------------
(* The records collected, for the statements about the collectors *)

NoDuplicates(records) ==
    \A i, j \in 1..Len(records) : records[i] = records[j] => i = j

\* no result page of the view shows the same row twice
PagesWithoutDuplicates(v) ==
    \A n \in 1..Len(v.pages) : NoDuplicates(TableData(v.pages[n]))

\* the records the reads of a log added, in order
RECURSIVE AddedBy(_)
AddedBy(log) == IF log = <<>> THEN <<>> ELSE Head(log).added \o AddedBy(Tail(log))

\* a read of the log returned what an earlier read of it returned
Reread(log, j) == \E i \in 1..(j - 1) : log[i].content = log[j].content

(* C8: the records get_first_and_last_page_data returns never hold two
   structurally equal records, whatever the first and the last page hold. *)
FirstLastUnique ==
    fl_pc = "returned" => NoDuplicates(fl_data)

(* C9: the records get_all_pages_data accumulates never hold two structurally
   equal records: after an advance only the records not accumulated yet are
   added, also when the new page overlaps the accumulated ones partly. Stated
   for the views none of whose pages shows a row twice. *)
AllPagesUnique ==
    PagesWithoutDuplicates(view) => NoDuplicates(all_data)

(* C10: in both collectors, a page read that returns what an earlier read of
   the same call returned adds no record: the accumulated records are the
   records added by the other reads. *)
RereadAddsNothing ==
    /\ fl_pc = "returned" => fl_data = AddedBy(fl_log)
    /\ all_data = AddedBy(ap_log)
    /\ \A j \in 1..Len(fl_log) : Reread(fl_log, j) => fl_log[j].added = <<>>
    /\ \A j \in 1..Len(ap_log) : Reread(ap_log, j) => ap_log[j].added = <<>>

\* both collectors returned, each after reading a page of records a second
\* time: the first-and-last collector with page 1 as the highest numbered
\* page, the all-pages collector after an advance
RereadAddsNothingWitness ==
    /\ fl_pc = "returned"
    /\ ap_pc = "returned"
    /\ faults = 0
    /\ Len(view.pages) = 1
    /\ view.bar = "all"
    /\ view.role
    /\ view.next = "always"
    /\ Len(fl_log) = 2
    /\ fl_log[1].content # <<>>
    /\ Reread(fl_log, 2)
    /\ Len(ap_log) = 3
    /\ Reread(ap_log, 2)
    /\ Reread(ap_log, 3)

----------------------------------------------------------------------------
(* The two collectors on the same view *)

Range(seq) == {seq[i] : i \in 1..Len(seq)}

\* both collectors returned and every page read of theirs succeeded
BothReturned == fl_pc = "returned" /\ ap_pc = "returned" /\ faults = 0

\* the records of all the pages of a view
AllRecords(v) == UNION {Range(TableData(v.pages[n])) : n \in 1..Len(v.pages)}

(* C11: on the same view, with every read successful, every record
   get_first_and_last_page_data returns is also returned by
   get_all_pages_data, whatever controls the view has. *)
ExhaustiveCoversSampled ==
    BothReturned => Range(fl_data) \subseteq Range(all_data)

\* the view has a control to leave a page with, and its numbered controls,
\* when it has them, are found by both collectors
Navigable(v) ==
    /\ v.next # "absent" \/ v.bar # "absent"
    /\ v.bar # "absent" => v.role

\* every page of the view shows a row
NoEmptyPage(v) == \A n \in 1..Len(v.pages) : v.pages[n] # <<>>

(* C12: with every read successful, get_all_pages_data returns every record
   of every page of a view that has a Next control, numbered controls (all of
   them or a window of them), or both. Stated for the views without an empty
   page. *)
ExhaustiveComplete ==
    (ap_pc = "returned" /\ faults = 0 /\ Navigable(view) /\ NoEmptyPage(view))
        => AllRecords(view) \subseteq Range(all_data)

\* a step of the loop of get_all_pages_data: from the head of an iteration
\* (the Next control) or from its rest (the numbered buttons)
InLoop == ap_pc \in {"next", "scan"}

\* the step accumulates a record that was not accumulated before
AddsNewRecord == Range(all_data') \ Range(all_data) # {}

\* an iteration that starts another one has added a new record; a pass in
\* which neither the Next control nor a numbered button brings one ends the loop
LoopProgress ==
    /\ (InLoop /\ ap_pc' = "next") => AddsNewRecord
    /\ (ap_pc = "next" /\ ~AddsNewRecord) => ap_pc' = "scan"
    /\ (ap_pc = "scan" /\ ~AddsNewRecord) => ap_pc' = "returned"

(* C13: the loop of get_all_pages_data terminates, also with a Next control
   that is never disabled, with a page shown again and with failed reads:
   every iteration that does not end the loop adds a record not accumulated
   before, and the loop ends at the first pass that adds none. *)
LoopTerminates ==
    /\ [][LoopProgress]_vars
    /\ <>(ap_pc = "returned")

\* the loop ended on a view whose Next control is never disabled, after an
\* iteration that added records and a pass that showed the last page again
LoopTerminatesWitness ==
    /\ ap_pc = "returned"
    /\ view.next = "always"
    /\ Len(view.pages) >= 2
    /\ Len(ap_log) >= 3
    /\ ap_log[2].added # <<>>
    /\ Reread(ap_log, Len(ap_log))
    /\ ap_log[Len(ap_log)].content # <<>>

----------------------------------------------------------------------------
(* The Explorer when a selection fails *)

Last(seq) == seq[Len(seq)]

\* the last driver call was a selection: it returned False and the loop body
\* was left by `continue`
SelectionFailed == driverLog # <<>> /\ Last(driverLog)[1] = "select"

\* the options the page lists for the next dimension once the values of
\* prefix are selected in dimension order
ListedUnder(t, prefix) ==
    get_dropdown_options(t, ApplyPrefix(t, <<>>, prefix, 1, 0, <<>>).sel,
                         Len(prefix) + 1, FALSE)

\* a branch and the siblings of the OptionSet it was taken from
SiblingsOf(t, prefix) ==
    LET parent == SubSeq(prefix, 1, Len(prefix) - 1)
        opts   == ListedUnder(t, parent)
    IN  {Append(parent, opts[i]) : i \in 1..Len(opts)}

\* a step of a loop body: the branch is run for the first time, and the
\* chains it adds are chains of this branch; after a selection that failed it
\* adds none, and the loops it leaves are at their last option
BranchStep ==
    ex_pc = "loop" =>
        /\ Prefix(loops) \notin explored
        /\ \A n \in (Len(complete_chains) + 1)..Len(complete_chains') :
              SubSeq(ChainSeq(complete_chains'[n]), 1, NDims - 1) = Prefix(loops)
        /\ SubSeq(complete_chains', 1, Len(complete_chains)) = complete_chains
        /\ SelectionFailed' =>
              /\ complete_chains' = complete_chains
              /\ Len(loops') <= Len(loops)
              /\ \A j \in (Len(loops') + 1)..Len(loops) :
                    loops[j].i = Len(loops[j].opts)

\* when the exploration is over, every sibling of every branch it ran was run
SiblingsExplored ==
    ex_pc = "done" =>
        \A prefix \in explored : SiblingsOf(uiTree, prefix) \subseteq explored

(* C14: when select_dropdown_option returns False in a loop body of
   build_complete_filter_chains, at any depth, the branch emits no chain, the
   exploration goes on, and every later sibling of the option, at its level
   and at the enclosing ones, is still explored. *)
FailureSkipsBranch ==
    /\ [][BranchStep]_vars
    /\ []SiblingsExplored

\* the selection of the area has just failed in a loop body that had
\* selected the region again, after chains were emitted; the exploration is
\* at the next sibling
FailureSkipsBranchWitness ==
    /\ SelectionFailed
    /\ Len(driverLog) = 3
    /\ ex_pc = "loop"
    /\ complete_chains # <<>>
    /\ faults = 1

----------------------------------------------------------------------------
(* run_comprehensive_test *)

\* the selections of lines 545-575 from dimension j on, with the result of a
\* selection that returns False left out of success
RECURSIVE ApplyChainAnyway(_, _, _, _, _, _)
ApplyChainAnyway(t, sel, chain, j, f, calls) ==
    IF j > NDims THEN [success |-> TRUE, sel |-> sel, calls |-> calls]
    ELSE LET r == select_dropdown_option(t, sel, j, chain[Dims[j]], f = j)
             c == Append(calls, [dim |-> j, value |-> chain[Dims[j]], ok |-> r.ok])
         IN  IF r.ok THEN ApplyChainAnyway(t, r.sel, chain, j + 1, f, c)
             ELSE [success |-> TRUE, sel |-> r.sel, calls |-> c]

\* lines 545-575, from dimension j on: `success &= select_dropdown_option(...)`
\* for the region, and for each later dimension `if success:` before it. f is
\* the selection in which a driver call raises (0: none)
RECURSIVE ApplyChain(_, _, _, _, _, _)
ApplyChain(t, sel, chain, j, f, calls) ==
    IF j > NDims THEN [success |-> TRUE, sel |-> sel, calls |-> calls]
    ELSE LET r == select_dropdown_option(t, sel, j, chain[Dims[j]], f = j)
             c == Append(calls, [dim |-> j, value |-> chain[Dims[j]], ok |-> r.ok])
         IN  IF r.ok THEN ApplyChain(t, r.sel, chain, j + 1, f, c)
             ELSE [success |-> FALSE, sel |-> r.sel, calls |-> c]

TxtZ == <<"z">>

\* a row of the result table that shows the values of the chain, and a row
\* that shows other values
RowMatching(chain) ==
    <<<<"n">>, <<"c">>>> \o [i \in 1..NDims |-> chain[Dims[i]]]

RowOther == <<<<"n">>, <<"c">>, TxtZ, TxtZ, TxtZ, TxtZ, TxtZ>>

\* the result views the page may show once the chain is applied: one page
\* with no row, with a row of the chain, or with another row
RunViews(chain) ==
    { [pages |-> <<rows>>, next |-> "absent", bar |-> "absent", role |-> FALSE] :
          rows \in {<<>>, <<RowMatching(chain)>>, <<RowOther>>} }

NoChainsNever(chains) == FALSE

\* `if not complete_chains`
NoChains(chains) == chains = <<>>

\* lines 527-536: build_complete_filter_chains has returned
RunStart ==
    /\ run_pc = "build"
    /\ ex_pc = "done"
    /\ run_pc' = IF NoChains(complete_chains) THEN "ended"
                 ELSE IF complete_chains = <<>> THEN "summary" ELSE "test"
    /\ results' = <<>>
    /\ UNCHANGED <<summary, run_error, runLog>>
    /\ UNCHANGED <<exVars, vfVars, view, flVars, apVars>>

\* lines 538-596, one iteration of `for i, chain in enumerate(complete_chains, 1)`;
\* the page then shows one of the result views, which is read without failure
TestChain ==
    /\ run_pc = "test"
    /\ \E f \in 0..NDims :
       \E v \in RunViews(complete_chains[Len(runLog) + 1]) :
         LET chain   == complete_chains[Len(runLog) + 1]
             applied == ApplyChain(uiTree, clear_all_filters(uiSel), chain, 1, f, <<>>)
             all     == get_first_and_last_page_data(v, 1, FALSE, FALSE).all_data
             verification == verify_filters(all, chain)
         IN  /\ f # 0 => faults < MaxFaults /\ Len(applied.calls) >= f
             /\ ~applied.success => v = CHOOSE w \in RunViews(chain) : TRUE
             /\ faults' = faults + (IF f # 0 THEN 1 ELSE 0)
             /\ uiSel' = applied.sel
             /\ results' =
                  IF applied.success
                  THEN Append(results, [chain |-> chain, data_count |-> Len(all),
                                        verification |-> verification])
                  ELSE results
             /\ runLog' = Append(runLog,
                              [chain |-> chain, calls |-> applied.calls,
                               collected |-> applied.success,
                               verified |-> applied.success])
             /\ run_pc' = IF Len(runLog) + 1 = Len(complete_chains)
                          THEN "summary" ELSE "test"
    /\ UNCHANGED <<summary, run_error>>
    /\ UNCHANGED <<uiTree, FILTER_LIMITS, ex_pc, loops, complete_chains, explored,
                   driverLog>>
    /\ UNCHANGED <<vfVars, view, flVars, apVars>>

\* line 613
PassedTests(res) ==
    Cardinality({n \in 1..Len(res) : Len(res[n].verification.invalid_records) = 0})

Figure(name, num, den) == [name |-> name, num |-> num, den |-> den]

\* lines 607-618 and 641-642: the figures printed, the success rate
\* passed_tests / total_tests * 100 kept exact as a fraction; with no result
\* the division raises ZeroDivisionError and the except branch is taken
Summary ==
    /\ run_pc = "summary"
    /\ LET total_tests  == Len(results)
           passed_tests == PassedTests(results)
           counts == << Figure("total", total_tests, 1),
                        Figure("passed", passed_tests, 1),
                        Figure("failed", total_tests - passed_tests, 1) >>
       IN  IF total_tests = 0
           THEN summary' = counts /\ run_error' = TRUE
           ELSE /\ summary' = Append(counts,
                                  Figure("success rate", passed_tests * 100, total_tests))
                /\ run_error' = FALSE
    /\ run_pc' = "ended"
    /\ UNCHANGED <<results, runLog>>
    /\ UNCHANGED <<exVars, vfVars, view, flVars, apVars>>

\* the option lists of the pages of a run
RunLists == { <<>>, <<TxtA>>, <<TxtA, TxtB>>, <<TxtA, TxtAB>> }

RunTrees == [dim : {1}, top : RunLists, c1 : RunLists, c2 : RunLists]

\* the run after the login and the navigation to the Retailers page
InitRun ==
    /\ VerifierIdle
    /\ CollectorsIdle
    /\ uiTree \in RunTrees
    /\ uiSel = <<>>
    /\ FILTER_LIMITS = NoLimits
    /\ ex_pc = "start"
    /\ loops = <<>>
    /\ complete_chains = <<>>
    /\ explored = {}
    /\ driverLog = <<>>
    /\ faults = 0
    /\ run_pc = "build"
    /\ results = <<>>
    /\ summary = <<>>
    /\ run_error = FALSE
    /\ runLog = <<>>

NextRun ==
    \/ BuildStart
    \/ RegionLoop
    \/ AreaLoop
    \/ DistributorLoop
    \/ TerritoryLoop
    \/ RunStart
    \/ TestChain
    \/ Summary

SpecRun == InitRun /\ [][NextRun]_vars

----------------------------------------------------------------------------
(* The run: what is done for each chain *)

\* all 5 selections of the entry were made and returned True
Applied(entry) ==
    Len(entry.calls) = NDims /\ \A i \in 1..NDims : entry.calls[i].ok

\* the chains of the entries whose application succeeded, in order
RECURSIVE AppliedChains(_)
AppliedChains(log) ==
    IF log = <<>> THEN <<>>
    ELSE (IF Applied(Head(log)) THEN <<Head(log).chain>> ELSE <<>>)
             \o AppliedChains(Tail(log))

(* C15: for each chain the orchestrator selects the dimensions in order,
   region first, and stops at the first selection that returns False; it
   collects, verifies and records a result only when all 5 selections
   returned True, and goes on with the next chain in either case. *)
ChainGate ==
    /\ \A n \in 1..Len(runLog) :
         LET entry == runLog[n]
         IN  /\ entry.chain = complete_chains[n]
             /\ Len(entry.calls) \in 1..NDims
             /\ \A i \in 1..Len(entry.calls) :
                   /\ entry.calls[i].dim = i
                   /\ entry.calls[i].value = entry.chain[Dims[i]]
                   /\ i < Len(entry.calls) => entry.calls[i].ok
             /\ entry.collected <=> Applied(entry)
             /\ entry.verified <=> Applied(entry)
    /\ [n \in 1..Len(results) |-> results[n].chain] = AppliedChains(runLog)
    /\ run_pc \in {"summary", "ended"} /\ complete_chains # <<>>
          => Len(runLog) = Len(complete_chains)

\* the run ended; the selection of the distributor failed for a chain, and a
\* later chain was applied, collected and verified
ChainGateWitness ==
    /\ run_pc = "ended"
    /\ \E n, m \in 1..Len(runLog) :
         /\ n < m
         /\ Len(runLog[n].calls) = 3
         /\ ~runLog[n].calls[3].ok
         /\ Applied(runLog[m])
         /\ runLog[m].collected
         /\ results[Len(results)].chain = runLog[m].chain

\* the summary has its 4 figures: total, passed, failed, success rate
SummaryPrinted ==
    /\ Len(summary) = 4
    /\ summary[1].num = Len(AppliedChains(runLog))
    /\ summary[2].num + summary[3].num = summary[1].num
    /\ summary[4].den = summary[1].num

(* C16: a run in which the Explorer emitted a chain ends with the complete
   summary (total, passed, failed, success rate), the total being the number
   of chains applied, and without error, however many applications failed. *)
SummaryComplete ==
    (run_pc = "ended" /\ complete_chains # <<>>)
        => SummaryPrinted /\ ~run_error

(* C17: on a page whose region dropdown offers no option,
   build_complete_filter_chains returns no chain and selects nothing, and the
   run ends there: no chain is applied, nothing is collected or verified, no
   summary is computed and the except branch is not taken. *)
EmptyRootEndsEarly ==
    OptionSet(uiTree, <<>>) = <<>> =>
        /\ explored = {} /\ loops = <<>> /\ complete_chains = <<>>
        /\ uiSel = <<>>
        /\ driverLog \in {<<>>, <<<<"clear">>, <<"list", 1>>>>}
        /\ ex_pc \in {"start", "done"}
        /\ run_pc \in {"build", "ended"}
        /\ runLog = <<>> /\ results = <<>> /\ summary = <<>>
        /\ ~run_error

\* the run has ended on a page without regions
EmptyRootEndsEarlyWitness ==
    /\ OptionSet(uiTree, <<>>) = <<>>
    /\ ex_pc = "done"
    /\ run_pc = "ended"

----------------------------------------------------------------------------
(* The collectors when a page read fails *)

PageRecords(v, n) == Range(TableData(v.pages[n]))

\* every page shows a record that no page before it shows
NewOnEachPage(v) ==
    \A n \in 1..Len(v.pages) :
        PageRecords(v, n) \ UNION {PageRecords(v, m) : m \in 1..(n - 1)} # {}

\* the pages with a record that get_all_pages_data has not accumulated
MissingPages ==
    {n \in 1..Len(view.pages) : ~(PageRecords(view, n) \subseteq Range(all_data))}

(* C18: a page read that fails adds no record and does not stop
   get_all_pages_data: the pages after it are still read, so that the records
   it returns lack those of the failed reads only. Stated for the views that
   are read completely when no read fails. *)
ReadFailureTolerated ==
    (ap_pc = "returned" /\ fl_pc = "call" /\ Navigable(view) /\ NewOnEachPage(view))
        => Cardinality(MissingPages) <= faults

----------------------------------------------------------------------------
(* The driver calls of the Explorer *)

\* clear_all_filters, the selections of the prefix in dimension order, and
\* the listing of the next dimension
CallsFor(prefix) ==
    <<<<"clear">>>> \o [j \in 1..Len(prefix) |-> <<"select", j, prefix[j]>>]
        \o <<<<"list", Len(prefix) + 1>>>>

\* a step that ends with a listing: the listing follows the calls for the
\* prefix of the loop body that made it
ListingAfterPrefix ==
    (driverLog' # <<>> /\ Last(driverLog')[1] = "list")
        => driverLog' = CallsFor(Prefix(loops))

\* opts is what the page lists once the prefix is selected
ListedFor(t, prefix, opts) ==
    LET r == ApplyPrefix(t, <<>>, prefix, 1, 0, <<>>)
    IN  r.ok /\ opts = get_dropdown_options(t, r.sel, Len(prefix) + 1, FALSE)

\* the options of each active loop were listed under the prefix they extend,
\* and so was the point of each chain
OptionsOfOwnPrefix ==
    /\ \A j \in 1..Len(loops) :
          ListedFor(uiTree, SubSeq(Prefix(loops), 1, j - 1), loops[j].opts)
    /\ \A n \in 1..Len(complete_chains) :
          \E opts \in {ListedUnder(uiTree,
                          SubSeq(ChainSeq(complete_chains[n]), 1, NDims - 1))} :
              \E i \in 1..Len(opts) : opts[i] = complete_chains[n].point

(* C19: in build_complete_filter_chains every listing of the options of a
   dimension comes right after clear_all_filters and the selections of the
   earlier dimensions, in dimension order, with the values of the current
   prefix (after clear_all_filters alone for the region); the options a loop
   runs over are those listed under the prefix it extends. *)
FreshOptionSets ==
    /\ [][ListingAfterPrefix]_vars
    /\ []OptionsOfOwnPrefix

\* the areas of the second region have just been listed, after
\* clear_all_filters and the selection of that region, on a page that lists
\* other areas under the first region; chains of the first region are emitted
FreshOptionSetsWitness ==
    /\ ex_pc = "loop"
    /\ Len(loops) = 2
    /\ loops[1].i = 2
    /\ driverLog = CallsFor(<<loops[1].opts[2]>>)
    /\ complete_chains # <<>>
    /\ uiTree.dim = 1
    /\ loops[2].opts # OptionSet(uiTree, <<loops[1].opts[1]>>)

----------------------------------------------------------------------------
(* The options explored under FILTER_LIMITS *)

\* the options to explore of a list, by the entry of FILTER_LIMITS: all of
\* them for None, the first min(k, n) of them for the integer k
FirstOptions(listed, limit) ==
    IF limit = None THEN listed
    ELSE SubSeq(listed, 1, Min({limit[1], Len(listed)}))

(* C20: for every dimension and every upstream context the Explorer explores
   the first min(k, n) of the n options listed when the FILTER_LIMITS entry
   of the dimension is the integer k (k >= 0), and all of them when it is
   None: each active loop runs over these options, and each chain has its
   point among them. *)
LimitedOptions ==
    /\ \A j \in 1..Len(loops) :
          loops[j].opts =
              FirstOptions(ListedUnder(uiTree, SubSeq(Prefix(loops), 1, j - 1)),
                           FILTER_LIMITS[Dims[j]])
    /\ \A n \in 1..Len(complete_chains) :
          \E opts \in {FirstOptions(
                          ListedUnder(uiTree,
                              SubSeq(ChainSeq(complete_chains[n]), 1, NDims - 1)),
                          FILTER_LIMITS["point"])} :
              \E i \in 1..Len(opts) : opts[i] = complete_chains[n].point


----------------------------------------------------------------------------
(* The page the sampled collector navigates to *)

(* C21: the sampled collector navigates once, to the page of the visible
   numbered control with the greatest number, the numbers compared as
   integers (10 over 9); with no numbered control among the visible controls
   it navigates nowhere and returns the records read from page 1. *)
SampledNavigation ==
    fl_pc = "returned" =>
        LET numbers == Range(NumberedPages(view, 1))
        IN  IF numbers = {}
            THEN /\ fl_cur = 1
                 /\ Len(fl_log) = 1
                 /\ fl_data = fl_log[1].content
                 /\ fl_data \in {<<>>, TableData(view.pages[1])}
            ELSE /\ fl_cur = Max(numbers)
                 /\ Len(fl_log) = 2
                 /\ fl_log[2].content \in {<<>>, TableData(view.pages[Max(numbers)])}

SampledNavigationWitness ==
    /\ fl_pc = "returned"
    /\ Len(view.pages) = 10
    /\ fl_cur = 10
    /\ \E i \in 1..Len(fl_data) : fl_data[i].name = <<"q">>


----------------------------------------------------------------------------
(* The counts of the report of verify_filters *)

(* C22: in the report of verify_filters, for every list of records and every
   chain, valid_records plus the number of entries of invalid_records equals
   total_records, which is the number of records given, and every entry of
   invalid_records has at least one issue. *)
ReportCounts ==
    vf_pc = "returned" =>
        /\ verification_result.valid_records
               + Len(verification_result.invalid_records)
             = verification_result.total_records
        /\ verification_result.total_records = Len(data)
        /\ \A j \in 1..Len(verification_result.invalid_records) :
               verification_result.invalid_records[j].issues # <<>>

\* a report on an invalid record followed by a valid one
ReportCountsWitness ==
    /\ vf_pc = "returned"
    /\ Len(data) = 2
    /\ RecordIssues(data[1], filters, 1) # <<>>
    /\ RecordIssues(data[2], filters, 1) = <<>>
    /\ verification_result.valid_records = 1
    /\ Len(verification_result.invalid_records) = 1


----------------------------------------------------------------------------
(* The two matching tests of verify_filters *)

\* the entries of invalid_records with an issue for the dimension d
EntriesWithIssue(d) ==
    { j \in 1..Len(verification_result.invalid_records) :
        \E k \in 1..Len(verification_result.invalid_records[j].issues) :
            verification_result.invalid_records[j].issues[k][1] = d }

(* C23: for every list of records and every chain, values that begin or end
   with whitespace included, the records counted as compliant for a
   dimension in filter_compliance are those with no issue for the dimension;
   so invalid_records is empty exactly when compliant = total for every
   dimension. *)
SameMatchingRule ==
    vf_pc = "returned" =>
        /\ \A i \in 1..NDims :
               verification_result.filter_compliance[Dims[i]].compliant =
                   verification_result.total_records
                       - Cardinality(EntriesWithIssue(Dims[i]))
        /\ verification_result.invalid_records = <<>>
               <=> \A i \in 1..NDims :
                       verification_result.filter_compliance[Dims[i]].compliant
                           = verification_result.filter_compliance[Dims[i]].total

====
